---- MODULE Spec2Model ----
(***************************************************************************)
(* DeepTrace backend (src/main.py): the analyze pipeline, the standalone   *)
(* verify operation and the stats read, as a state machine.                *)
(*                                                                         *)
(* Representation.                                                         *)
(*   - A Python str that the code slices, lower-cases or parses is a       *)
(*     sequence of one-character strings: "a.mp4" is <<"a",".","m","p",    *)
(*     "4">>.  Opaque strings (job ids, constants) are TLA+ strings.       *)
(*   - A float is carried as an exact integer numerator: a confidence is   *)
(*     in units of 1/ConfScale, deepfake_likelihood in units of            *)
(*     1/(ConfScale * total_frames), accuracy in units of 1/100.           *)
(*   - TLC integers are 32 bit while int(filehash[:8], 16) ranges to       *)
(*     2^32-1 and int(filehash, 16) to 2^256-1.  The code uses seed only   *)
(*     in (seed * k) % 1000 and the big integer only in x % 2, so the      *)
(*     model carries int(s, 16) reduced modulo 1000 resp. 2, computed      *)
(*     digit by digit over the whole numeral.                              *)
(***************************************************************************)
EXTENDS Integers, Sequences, FiniteSets, TLC

VARIABLES reqs, store, verify_call, stats_out, score

vars == <<reqs, store, verify_call, stats_out, score>>

-----------------------------------------------------------------------------
(* Bounds of the model *)

\* number of analyze requests in flight in Spec
MaxRequests == 2
\* longest short filehash payload handed to verify
MaxPayloadLen == 3
\* most records already in collection "analysisjob" when the process starts
MaxStored == 11
\* seeds 0 .. MaxSeedLow are swept as the low hex digits of filehash[:8]
MaxSeedLow == 1023

(* Program constants *)

\* src/main.py:67  total_frames = 60
total_frames == 60
\* src/main.py:75  accuracy = 0.95, in units of 1/100
accuracy == 95
\* src/main.py:146 "accuracy_benchmark": 0.95, in units of 1/100
accuracy_benchmark == 95
\* src/main.py:138 get_documents("analysisjob", limit=10)
stats_limit == 10
\* src/main.py:100, 127  filehash[:64]
TxHashDigits == 64
\* src/main.py:62  filehash[:8]
SeedDigits == 8
\* denominator of a confidence: 0.5 + 0.5 * ((a/1000 + b/1000) / 2)
\*   = (2000 + a + b) / 4000
ConfScale == 4 * 1000

-----------------------------------------------------------------------------
(* Strings *)

UpperLetters == <<"A","B","C","D","E","F","G","H","I","J","K","L","M",
                  "N","O","P","Q","R","S","T","U","V","W","X","Y","Z">>
LowerLetters == <<"a","b","c","d","e","f","g","h","i","j","k","l","m",
                  "n","o","p","q","r","s","t","u","v","w","x","y","z">>

\* the lower-case letter of every upper-case letter
LowerTable ==
    [c \in {UpperLetters[k] : k \in 1..26} |->
        LowerLetters[CHOOSE k \in 1..26 : UpperLetters[k] = c]]

\* str.lower() on one character
LowerChar(c) == IF c \in DOMAIN LowerTable THEN LowerTable[c] ELSE c

\* str.lower()
Lower(s) == [k \in 1..Len(s) |-> LowerChar(s[k])]

\* str.endswith(suffix)
EndsWith(s, suffix) ==
    /\ Len(s) >= Len(suffix)
    /\ SubSeq(s, Len(s) - Len(suffix) + 1, Len(s)) = suffix

\* s[:n]
Prefix(s, n) == SubSeq(s, 1, IF Len(s) < n THEN Len(s) ELSE n)

HexDigits == <<"0","1","2","3","4","5","6","7","8","9","a","b","c","d","e","f">>

\* the value of every base-16 digit, either letter case
HexTable ==
    [c \in {HexDigits[k] : k \in 1..16} \cup {"A","B","C","D","E","F"} |->
        (CHOOSE k \in 1..16 : HexDigits[k] = LowerChar(c)) - 1]

IsHexDigit(c) == c \in DOMAIN HexTable

HexVal(c) == HexTable[c]

\* whitespace that int() strips from both ends
Whitespace == {" ", "\t", "\n", "\r"}

RECURSIVE LStrip(_)
LStrip(s) == IF s # <<>> /\ Head(s) \in Whitespace THEN LStrip(Tail(s)) ELSE s

RECURSIVE RStrip(_)
RStrip(s) ==
    IF s # <<>> /\ s[Len(s)] \in Whitespace
    THEN RStrip(SubSeq(s, 1, Len(s) - 1))
    ELSE s

\* int(s, 16): is the numeral negative
IntNegative(s) ==
    LET t == RStrip(LStrip(s)) IN t # <<>> /\ t[1] = "-"

\* int(s, 16): the digit part, after the surrounding whitespace, one sign,
\* one "0x" prefix and one underscore after that prefix are skipped
IntDigitPart(s) ==
    LET t == RStrip(LStrip(s))
        u == IF t # <<>> /\ t[1] \in {"+", "-"} THEN Tail(t) ELSE t
        v == IF Len(u) >= 2 /\ u[1] = "0" /\ u[2] \in {"x", "X"}
             THEN SubSeq(u, 3, Len(u))
             ELSE u
    IN  IF v # u /\ v # <<>> /\ v[1] = "_" THEN Tail(v) ELSE v

\* int(s, 16) returns (TRUE) or raises ValueError (FALSE): the digit part is
\* non-empty, made of hex digits and single underscores between digits
IntParses(s) ==
    LET d == IntDigitPart(s) IN
    /\ d # <<>>
    /\ d[1] # "_"
    /\ d[Len(d)] # "_"
    /\ \A k \in 1..Len(d) : d[k] = "_" \/ IsHexDigit(d[k])
    /\ \A k \in 1..(Len(d) - 1) : ~(d[k] = "_" /\ d[k + 1] = "_")

\* 16^k modulo m, by repeated squaring
RECURSIVE Pow16Mod(_, _)
Pow16Mod(k, m) ==
    IF k = 0 THEN 1 % m
    ELSE LET h == Pow16Mod(k \div 2, m)
         IN  (h * h * (IF k % 2 = 1 THEN 16 ELSE 1)) % m

\* the number of digits among d[lo..hi], underscores left out
DigitCount(d, lo, hi) == Cardinality({k \in lo..hi : d[k] # "_"})

\* the magnitude of the numeral d[lo..hi] modulo m, most significant digit
\* first, computed by halves
RECURSIVE DigitsMod(_, _, _, _)
DigitsMod(d, lo, hi, m) ==
    IF lo > hi THEN 0
    ELSE IF lo = hi
         THEN (IF d[lo] = "_" THEN 0 ELSE HexVal(d[lo]) % m)
    ELSE LET mid == (lo + hi) \div 2
         IN  (DigitsMod(d, lo, mid, m) * Pow16Mod(DigitCount(d, mid + 1, hi), m)
                + DigitsMod(d, mid + 1, hi, m)) % m

\* int(s, 16) % m for a numeral that parses; Python's % takes the sign of m
IntBase16Mod(s, m) ==
    LET d == IntDigitPart(s)
        v == DigitsMod(d, 1, Len(d), m)
    IN  IF IntNegative(s) THEN (m - v) % m ELSE v

-----------------------------------------------------------------------------
(* hashlib.sha256(content).hexdigest() *)

\* the uploads of the model: b"" and b"c"
Contents == { <<>>, <<99>> }

Sha256Empty ==
    <<"e","3","b","0","c","4","4","2","9","8","f","c","1","c","1","4",
      "9","a","f","b","f","4","c","8","9","9","6","f","b","9","2","4",
      "2","7","a","e","4","1","e","4","6","4","9","b","9","3","4","c",
      "a","4","9","5","9","9","1","b","7","8","5","2","b","8","5","5">>

Sha256C ==
    <<"2","e","7","d","2","c","0","3","a","9","5","0","7","a","e","2",
      "6","5","e","c","f","5","b","5","3","5","6","8","8","5","a","5",
      "3","3","9","3","a","2","0","2","9","d","2","4","1","3","9","4",
      "9","9","7","2","6","5","a","1","a","2","5","a","e","f","c","6">>

\* SHA-256 is a library function: the model holds its value on each upload
Sha256Hex(content) == IF content = <<>> THEN Sha256Empty ELSE Sha256C

-----------------------------------------------------------------------------
(* Scoring: src/main.py:61-74 *)

\* seed = int(filehash[:8], 16), reduced modulo 1000
SeedOf(filehash) == IntBase16Mod(Prefix(filehash, SeedDigits), 1000)

\* pseudo_rand(i) = ((seed * (i + 73)) % 1000) / 1000.0, numerator over 1000
pseudo_rand(seed, i) == (seed * (i + 73)) % 1000

\* max(0.0, min(1.0, conf)), numerator over ConfScale
Clamp(conf) ==
    IF conf < 0 THEN 0 ELSE IF conf > ConfScale THEN ConfScale ELSE conf

\* conf = 0.5 + 0.5 * ((pseudo_rand(i) + pseudo_rand(i//3)) / 2), clamped
Confidence(seed, i) ==
    Clamp(ConfScale \div 2 + pseudo_rand(seed, i) + pseudo_rand(seed, i \div 3))

\* the entry with its index counted from 1
FrameEntryOffByOne(seed, i) ==
    [frame_index |-> i + 1, confidence |-> Confidence(seed, i)]

\* one entry appended by the loop body, for i in range(total_frames)
FrameEntry(seed, i) ==
    [frame_index |-> i, confidence |-> Confidence(seed, i)]

\* frame_scores after the loop
FrameScores(filehash) ==
    LET seed == SeedOf(filehash)
    IN  [k \in 1..total_frames |-> FrameEntry(seed, k - 1)]

\* the sum of the confidences of fs[lo..hi], computed by halves
RECURSIVE SumConfidence(_, _, _)
SumConfidence(fs, lo, hi) ==
    IF lo > hi THEN 0
    ELSE IF lo = hi THEN fs[lo].confidence
    ELSE SumConfidence(fs, lo, (lo + hi) \div 2)
           + SumConfidence(fs, (lo + hi) \div 2 + 1, hi)

\* sum(s["confidence"] for s in frame_scores) / total_frames, as the numerator
\* over ConfScale * total_frames
Likelihood(fs) == SumConfidence(fs, 1, Len(fs))

\* the digests of the model's uploads, and the values of FrameScores and
\* Likelihood on them, computed once
Digests == {Sha256Hex(c) : c \in Contents}

FrameScoresOf == [h \in Digests |-> FrameScores(h)]

LikelihoodOf == [fs \in {FrameScoresOf[h] : h \in Digests} |-> Likelihood(fs)]

-----------------------------------------------------------------------------
(* Verification record: src/main.py:98-104 and 122-131 *)

contract_address == "0xDeePTrAce00000000000000000000000000000001"

\* datetime.isoformat(): the textual form of an instant
isoformat(t) == <<"iso", t>>

\* True if int(filehash, 16) % 2 == 0 else False
Verified(filehash) == IntBase16Mod(filehash, 2) = 0

\* the value of Verified on the digests of the model's uploads, computed once
VerifiedOf == [h \in Digests |-> Verified(h)]

\* "0x" + filehash with nothing cut off
TxHashWhole(filehash) == <<"0", "x">> \o filehash

\* "0x" + filehash[:64]
TxHash(filehash) == <<"0", "x">> \o Prefix(filehash, TxHashDigits)

-----------------------------------------------------------------------------
(* Inputs *)

\* uploads' names: "a.mp4", "BB.AvI", "c.mov", "mp4", "a.mp4.txt", ""
Filenames ==
    { <<"a",".","m","p","4">>, <<"B","B",".","A","v","I">>,
      <<"c",".","m","o","v">>, <<"m","p","4">>,
      <<"a",".","m","p","4",".","t","x","t">>, <<>> }

\* the one name used where the name does not matter
OneFilename == { <<"a",".","m","p","4">> }

\* readings of datetime.now(timezone.utc)
Times == {1, 2}

-----------------------------------------------------------------------------
(* Collection "analysisjob" (database.py) *)

\* the identifier the store assigns to its n-th record
ObjectId(n) == "oid" \o ToString(n)

\* create_document(collection, data) succeeding: the store after the insert
CreateDocument(st, data) ==
    Append(st, data @@ ("_id" :> ObjectId(Len(st) + 1)))

\* the identifier create_document returns for that insert
CreatedId(st) == ObjectId(Len(st) + 1)

\* get_documents(collection, limit) succeeding: the most recent records
GetDocuments(st, limit) ==
    IF Len(st) <= limit THEN st ELSE SubSeq(st, Len(st) - limit + 1, Len(st))

-----------------------------------------------------------------------------
(* POST /api/analyze: src/main.py:51-114 *)

NoResponse == [status |-> 0]

\* a request slot before its upload arrives; read, attempts and hist record
\* what the handler did (payload read, create_document calls, states entered)
IdleReq ==
    [pc |-> "Idle", filename |-> <<>>, content |-> <<>>, read |-> FALSE,
     filehash |-> <<>>, filesize |-> 0, frame_scores |-> <<>>,
     deepfake_likelihood |-> 0, accuracy |-> 0, analyzed_at |-> 0,
     job_id |-> "", attempts |-> 0, hist |-> <<>>, response |-> NoResponse]

\* file.filename.endswith((".mp4", ".avi")), the lower() forgotten
AllowedExtensionCaseSensitive(filename) ==
    \/ EndsWith(filename, <<".","m","p","4">>)
    \/ EndsWith(filename, <<".","a","v","i">>)

\* file.filename.lower().endswith((".mp4", ".avi"))
AllowedExtension(filename) ==
    \/ EndsWith(Lower(filename), <<".","m","p","4">>)
    \/ EndsWith(Lower(filename), <<".","a","v","i">>)

\* raise HTTPException(status_code=400, ...)
Reject(q, fn, c) ==
    [q EXCEPT !.pc = "Rejected", !.filename = fn, !.content = c,
              !.hist = Append(@, "Rejected"),
              !.response = [status |-> 400,
                            detail |-> "Only MP4 or AVI files are supported"]]

\* the validation passed
Accept(q, fn, c) ==
    [q EXCEPT !.pc = "Received", !.filename = fn, !.content = c,
              !.hist = Append(@, "Received")]

\* content = await file.read(); filehash = ...; filesize = len(content)
ReadAndHash(q) ==
    [q EXCEPT !.pc = "Hashed", !.read = TRUE,
              !.filehash = Sha256Hex(q.content),
              !.filesize = Len(q.content),
              !.hist = Append(@, "Hashed")]

\* lines 61-77: frame_scores, deepfake_likelihood, accuracy, analyzed_at
ScoreRequest(q, now) ==
    LET frame_scores == FrameScoresOf[q.filehash] IN
    [q EXCEPT !.pc = "Scored",
              !.frame_scores = frame_scores,
              !.deepfake_likelihood = LikelihoodOf[frame_scores],
              !.accuracy = accuracy,
              !.analyzed_at = now,
              !.hist = Append(@, "Scored")]

\* job_doc with the filename normalised before it is stored
JobDocLowerName(q) ==
    [filename |-> Lower(q.filename), filesize |-> q.filesize,
     filehash |-> q.filehash, status |-> "completed",
     accuracy |-> q.accuracy, deepfake_likelihood |-> q.deepfake_likelihood,
     model |-> "CNN+LSTM v1", frame_scores |-> q.frame_scores,
     analyzed_at |-> q.analyzed_at]

\* job_doc, lines 79-89
JobDoc(q) ==
    [filename |-> q.filename, filesize |-> q.filesize,
     filehash |-> q.filehash, status |-> "completed",
     accuracy |-> q.accuracy, deepfake_likelihood |-> q.deepfake_likelihood,
     model |-> "CNN+LSTM v1", frame_scores |-> q.frame_scores,
     analyzed_at |-> q.analyzed_at]

\* job_id = create_document("analysisjob", job_doc)
OnCreated(q, id) ==
    [q EXCEPT !.pc = "Persisted", !.job_id = id, !.attempts = @ + 1,
              !.hist = Append(@, "Persisted")]

\* the exception of create_document left to propagate: a 500 response
OnCreateFailedRaise(q) ==
    [q EXCEPT !.pc = "Responded", !.attempts = @ + 1,
              !.hist = Append(@, "Responded"),
              !.response = [status |-> 500]]

\* create_document tried again after a failure
OnCreateFailedRetry(q) ==
    [q EXCEPT !.attempts = @ + 1]

\* except Exception: job_id = "temporary"
OnCreateFailed(q) ==
    [q EXCEPT !.pc = "PersistFailed", !.job_id = "temporary",
              !.attempts = @ + 1,
              !.hist = Append(@, "PersistFailed")]

\* verification marked verified only for a job that was stored
VerificationIfStored(q) ==
    [contract_address |-> contract_address,
     tx_hash |-> TxHash(q.filehash),
     network |-> "ethereum",
     verified |-> VerifiedOf[q.filehash] /\ q.job_id # "temporary",
     timestamp |-> isoformat(q.analyzed_at)]

\* verification, lines 98-104
Verification(q) ==
    [contract_address |-> contract_address,
     tx_hash |-> TxHash(q.filehash),
     network |-> "ethereum",
     verified |-> VerifiedOf[q.filehash],
     timestamp |-> isoformat(q.analyzed_at)]

\* return AnalyzeResponse(...), lines 106-114
Respond(q) ==
    [q EXCEPT !.pc = "Responded",
              !.hist = Append(@, "Responded"),
              !.response =
                  [status |-> 200,
                   body |-> [job_id |-> q.job_id,
                             filename |-> q.filename,
                             accuracy |-> q.accuracy,
                             deepfake_likelihood |-> q.deepfake_likelihood,
                             frame_scores |-> q.frame_scores,
                             analyzed_at |-> q.analyzed_at,
                             verification |-> Verification(q)]]]

\* an upload arrives and its name is validated; the slots are numbered in
\* the order of arrival
AnalyzeReceive(r, FN, CT) ==
    /\ reqs[r].pc = "Idle"
    /\ \A p \in DOMAIN reqs : p < r => reqs[p].pc # "Idle"
    /\ \E fn \in FN, c \in CT :
          reqs' = [reqs EXCEPT ![r] = IF AllowedExtension(fn)
                                      THEN Accept(@, fn, c)
                                      ELSE Reject(@, fn, c)]
    /\ UNCHANGED <<store, verify_call, stats_out, score>>

AnalyzeHash(r) ==
    /\ reqs[r].pc = "Received"
    /\ reqs' = [reqs EXCEPT ![r] = ReadAndHash(@)]
    /\ UNCHANGED <<store, verify_call, stats_out, score>>

AnalyzeScore(r, TM) ==
    /\ reqs[r].pc = "Hashed"
    /\ \E now \in TM : reqs' = [reqs EXCEPT ![r] = ScoreRequest(@, now)]
    /\ UNCHANGED <<store, verify_call, stats_out, score>>

\* create_document returns the identifier of the record it inserted
AnalyzePersistOk(r) ==
    /\ reqs[r].pc = "Scored"
    /\ store' = CreateDocument(store, JobDoc(reqs[r]))
    /\ reqs' = [reqs EXCEPT ![r] = OnCreated(@, CreatedId(store))]
    /\ UNCHANGED <<verify_call, stats_out, score>>

\* create_document raises: nothing is inserted
AnalyzePersistFail(r) ==
    /\ reqs[r].pc = "Scored"
    /\ reqs' = [reqs EXCEPT ![r] = OnCreateFailed(@)]
    /\ UNCHANGED <<store, verify_call, stats_out, score>>

AnalyzeRespond(r) ==
    /\ reqs[r].pc \in {"Persisted", "PersistFailed"}
    /\ reqs' = [reqs EXCEPT ![r] = Respond(@)]
    /\ UNCHANGED <<store, verify_call, stats_out, score>>

-----------------------------------------------------------------------------------------------------------------------------------------------------
(* POST /api/verify: src/main.py:119-131 *)

NoCall == [pc |-> "none"]

\* the response to payload.filehash = p at time now; a ValueError of int()
\* is not caught in the handler, and the framework answers 500
VerifyResponse(p, now) ==
    LET fh == Lower(p) IN
    IF ~IntParses(fh)
    THEN [status |-> 500]
    ELSE [status |-> 200,
          body |-> [filehash |-> fh,
                    contract_address |-> contract_address,
                    tx_hash |-> TxHash(fh),
                    network |-> "ethereum",
                    verified |-> Verified(fh),
                    timestamp |-> isoformat(now)]]

VerifyMedia(TM) ==
    /\ verify_call.pc = "pending"
    /\ \E now \in TM :
          verify_call' = [pc |-> "done", payload |-> verify_call.payload,
                          response |-> VerifyResponse(verify_call.payload, now)]
    /\ UNCHANGED <<reqs, store, stats_out, score>>

-----------------------------------------------------------------------------
(* GET /api/stats: src/main.py:133-150 *)

\* d.pop("_id", None) left out
KeepId(d) == d

\* d.pop("_id", None)
StripId(d) == [k \in DOMAIN d \ {"_id"} |-> d[k]]

\* recent after the loop over docs
Recent(docs) == [k \in 1..Len(docs) |-> StripId(docs[k])]

\* the returned dict; read_failed records whether get_documents raised
StatsResponse(recent, failed, now) ==
    [status |-> 200,
     read_failed |-> failed,
     body |-> [accuracy_benchmark |-> accuracy_benchmark,
               realtime_threats |-> now % 100,
               analyses |-> Len(recent),
               recent |-> recent]]

\* get_documents returns
StatsRead(TM) ==
    /\ \E now \in TM :
          stats_out' = StatsResponse(Recent(GetDocuments(store, stats_limit)), FALSE, now)
    /\ UNCHANGED <<reqs, store, verify_call, score>>

\* get_documents raises: except Exception: pass
StatsReadFails(TM) ==
    /\ \E now \in TM : stats_out' = StatsResponse(<<>>, TRUE, now)
    /\ UNCHANGED <<reqs, store, verify_call, score>>

-----------------------------------------------------------------------------
(* The scoring loop on its own *)

NoScore == [filehash |-> <<>>, frame_scores |-> <<>>, done |-> FALSE]

ScoreFrames ==
    /\ score.filehash # <<>>
    /\ ~score.done
    /\ score' = [score EXCEPT !.frame_scores = FrameScores(score.filehash),
                              !.done = TRUE]
    /\ UNCHANGED <<reqs, store, verify_call, stats_out>>

-----------------------------------------------------------------------------
(* The analyze pipeline, MaxRequests uploads in flight *)

Init ==
    /\ reqs = [r \in 1..MaxRequests |-> IdleReq]
    /\ store = <<>>
    /\ verify_call = NoCall
    /\ stats_out = NoResponse
    /\ score = NoScore

Next ==
    \/ \E r \in DOMAIN reqs : AnalyzeReceive(r, Filenames, Contents)
    \/ \E r \in DOMAIN reqs : AnalyzeHash(r)
    \/ \E r \in DOMAIN reqs : AnalyzeScore(r, Times)
    \/ \E r \in DOMAIN reqs : AnalyzePersistOk(r)
    \/ \E r \in DOMAIN reqs : AnalyzePersistFail(r)
    \/ \E r \in DOMAIN reqs : AnalyzeRespond(r)

Spec == Init /\ [][Next]_vars

-----------------------------------------------------------------------------
(* Every operation on its own inputs: one upload against a collection that  *)
(* already holds records, with the stats read; one verify call; one run of  *)
(* the scoring loop.                                                        *)

OneTime == {1}

\* a record stored by an earlier analysis of b"c" named "a.mp4"
EarlierJob ==
    JobDoc(ScoreRequest(ReadAndHash(
               Accept(IdleReq, <<"a",".","m","p","4">>, <<99>>)), 1))

\* the collection after n such analyses
RECURSIVE StoreOf(_)
StoreOf(n) ==
    IF n = 0 THEN <<>> ELSE CreateDocument(StoreOf(n - 1), EarlierJob)

\* characters of the filehash payloads
PayloadChars == {"0", "1", "e", "F", "x", " ", "_", "-"}

Strings(n) == UNION {[1..k -> PayloadChars] : k \in 0..n}

\* payloads of up to MaxPayloadLen characters, and payloads of TxHashDigits - 1
\* to TxHashDigits + 1 characters
Payloads ==
    Strings(MaxPayloadLen)
      \cup {[k \in 1..(TxHashDigits - 1) |-> "a"] \o s : s \in Strings(2)}

\* the three hex digits of n < 4096
Hex3(n) ==
    <<HexDigits[((n \div 256) % 16) + 1], HexDigits[((n \div 16) % 16) + 1],
      HexDigits[(n % 16) + 1]>>

\* digests whose first 8 characters are 00000xyz or fffffxyz
ScoreInputs ==
    {[k \in 1..5 |-> h] \o Hex3(n) \o <<"9", "9">> :
        h \in {"0", "f"}, n \in 0..MaxSeedLow}

InitApi ==
    \/ /\ reqs = [r \in {1} |-> IdleReq]
       /\ \E n \in 0..MaxStored : store = StoreOf(n)
       /\ verify_call = NoCall
       /\ stats_out = NoResponse
       /\ score = NoScore
    \/ /\ reqs = <<>>
       /\ store = <<>>
       /\ \E p \in Payloads : verify_call = [pc |-> "pending", payload |-> p]
       /\ stats_out = NoResponse
       /\ score = NoScore
    \/ /\ reqs = <<>>
       /\ store = <<>>
       /\ verify_call = NoCall
       /\ stats_out = NoResponse
       /\ \E h \in ScoreInputs : score = [NoScore EXCEPT !.filehash = h]

NextApi ==
    \/ \E r \in DOMAIN reqs : AnalyzeReceive(r, OneFilename, Contents)
    \/ \E r \in DOMAIN reqs : AnalyzeHash(r)
    \/ \E r \in DOMAIN reqs : AnalyzeScore(r, OneTime)
    \/ \E r \in DOMAIN reqs : AnalyzePersistOk(r)
    \/ \E r \in DOMAIN reqs : AnalyzePersistFail(r)
    \/ \E r \in DOMAIN reqs : AnalyzeRespond(r)
    \/ VerifyMedia(OneTime)
    \/ StatsRead(OneTime)
    \/ StatsReadFails(OneTime)
    \/ ScoreFrames

SpecApi == InitApi /\ [][NextApi]_vars

-----------------------------------------------------------------------------
(* Properties *)

\* the request entered state st
Visited(q, st) == \E k \in 1..Len(q.hist) : q.hist[k] = st

\* the request was answered with a result
Answered(q) == q.pc = "Responded" /\ q.response.status = 200

\* the record of the collection that carries identifier id
StoredAs(id) == store[CHOOSE k \in 1..Len(store) : store[k]["_id"] = id]

IsStored(id) == \E k \in 1..Len(store) : store[k]["_id"] = id

\* C1: every accepted request is answered with a result, never an error;
\* its job_id is the identifier of the record the store inserted for it when
\* create_document returned, and "temporary" when create_document raised,
\* and then the result is still complete; two requests that differ only in
\* the outcome of the write differ only in job_id.
C1_JobIdFromPersistence ==
    /\ \A r \in DOMAIN reqs :
         LET q == reqs[r] IN
         q.pc = "Responded" =>
           /\ q.response.status = 200
           /\ Visited(q, "Persisted") =>
                /\ q.response.body.job_id # "temporary"
                /\ IsStored(q.response.body.job_id)
                /\ StoredAs(q.response.body.job_id).filehash = Sha256Hex(q.content)
           /\ Visited(q, "PersistFailed") =>
                /\ q.response.body.job_id = "temporary"
                /\ q.response.body.filename = q.filename
                /\ q.response.body.accuracy = 95
                /\ Len(q.response.body.frame_scores) = 60
                /\ q.response.body.deepfake_likelihood
                     = Likelihood(q.response.body.frame_scores)
                /\ q.response.body.analyzed_at \in Times
                /\ q.response.body.verification.tx_hash
                     = <<"0", "x">> \o Sha256Hex(q.content)
    /\ \A r1, r2 \in DOMAIN reqs :
         /\ reqs[r1].pc = "Responded" /\ reqs[r2].pc = "Responded"
         /\ reqs[r1].filename = reqs[r2].filename
         /\ reqs[r1].content = reqs[r2].content
         /\ reqs[r1].analyzed_at = reqs[r2].analyzed_at
         => [reqs[r1].response.body EXCEPT !.job_id = ""]
              = [reqs[r2].response.body EXCEPT !.job_id = ""]

\* one request answered after a failed write and one after a successful write
C1_Witness ==
    \E r1, r2 \in DOMAIN reqs :
        /\ Answered(reqs[r1]) /\ Visited(reqs[r1], "PersistFailed")
        /\ reqs[r1].response.body.job_id = "temporary"
        /\ Answered(reqs[r2]) /\ Visited(reqs[r2], "Persisted")
        /\ reqs[r2].response.body.job_id = "oid1"

\* the name ends in ext, letter case ignored (ext given in both cases)
EndsWithAnyCase(fn, lower, upper) ==
    /\ Len(fn) >= Len(lower)
    /\ \A k \in 1..Len(lower) :
         fn[Len(fn) - Len(lower) + k] \in {lower[k], upper[k]}

SupportedName(fn) ==
    \/ EndsWithAnyCase(fn, <<".","m","p","4">>, <<".","M","P","4">>)
    \/ EndsWithAnyCase(fn, <<".","a","v","i">>, <<".","A","V","I">>)

\* C2: a request whose name does not end in .mp4 or .avi (any letter case)
\* is answered 400 and nothing else happens for it: the payload is not read
\* or hashed, no scores, no write, no record; every other request is
\* accepted and can proceed to hashing.
C2_RejectUnsupported ==
    /\ \A r \in DOMAIN reqs :
         LET q == reqs[r] IN
         q.pc # "Idle" =>
           /\ ~SupportedName(q.filename) <=> Visited(q, "Rejected")
           /\ Visited(q, "Rejected") =>
                /\ q.pc = "Rejected"
                /\ q.hist = <<"Rejected">>
                /\ q.response.status = 400
                /\ ~q.read
                /\ q.filehash = <<>>
                /\ q.frame_scores = <<>>
                /\ q.attempts = 0
                /\ q.job_id = ""
           /\ SupportedName(q.filename) =>
                /\ q.hist[1] = "Received"
                /\ q.pc = "Received" => ENABLED AnalyzeHash(r)
    /\ Len(store)
         = Cardinality({r \in DOMAIN reqs : Visited(reqs[r], "Persisted")})

\* a rejected "a.mp4.txt" beside a hashed "BB.AvI"
C2_Witness ==
    \E r1, r2 \in DOMAIN reqs :
        /\ reqs[r1].pc = "Rejected"
        /\ reqs[r1].filename = <<"a",".","m","p","4",".","t","x","t">>
        /\ reqs[r2].pc = "Hashed"
        /\ reqs[r2].filename = <<"B","B",".","A","v","I">>

\* a numeral of hex digits only
IsHexNumeral(p) == p # <<>> /\ \A k \in 1..Len(p) : IsHexDigit(p[k])

\* C3: verify answers every filehash that is not a hexadecimal numeral (the
\* empty string included) with a 4xx status, and echoes the lower-cased
\* input for every filehash it accepts.
C3_VerifyRejectsNonHex ==
    verify_call.pc = "done" =>
        /\ ~IsHexNumeral(verify_call.payload) =>
             verify_call.response.status \in 400..499
        /\ verify_call.response.status = 200 =>
             verify_call.response.body.filehash = Lower(verify_call.payload)

EvenNibbles == {"0", "2", "4", "6", "8", "a", "c", "e"}
OddNibbles == {"1", "3", "5", "7", "9", "b", "d", "f"}

\* verified is decided by the last character of the digest alone
ParityOfLast(digest, verified) ==
    /\ digest # <<>>
    /\ verified <=> digest[Len(digest)] \in EvenNibbles
    /\ ~verified <=> digest[Len(digest)] \in OddNibbles

\* C4: in analyze and in verify, for every accepted digest, verified is
\* true iff the last character of the digest is an even hex nibble and
\* false iff it is an odd hex nibble.
C4_VerifiedIffLastNibbleEven ==
    /\ \A r \in DOMAIN reqs :
         Answered(reqs[r]) =>
           ParityOfLast(reqs[r].filehash,
                        reqs[r].response.body.verification.verified)
    /\ (verify_call.pc = "done" /\ verify_call.response.status = 200) =>
           ParityOfLast(verify_call.response.body.filehash,
                        verify_call.response.body.verified)

\* C4 on the accepted payloads that are hexadecimal numerals
C4_OnHexNumerals ==
    /\ \A r \in DOMAIN reqs :
         Answered(reqs[r]) =>
           ParityOfLast(reqs[r].filehash,
                        reqs[r].response.body.verification.verified)
    /\ (/\ verify_call.pc = "done"
        /\ verify_call.response.status = 200
        /\ IsHexNumeral(verify_call.payload)) =>
           ParityOfLast(verify_call.response.body.filehash,
                        verify_call.response.body.verified)

\* C5 as claimed: tx_hash is "0x" followed by the whole digest, whatever
\* its length, in analyze and in verify.
C5_TxHashIsWholeDigest ==
    /\ \A r \in DOMAIN reqs :
         Answered(reqs[r]) =>
           reqs[r].response.body.verification.tx_hash
             = <<"0", "x">> \o reqs[r].filehash
    /\ (verify_call.pc = "done" /\ verify_call.response.status = 200) =>
           verify_call.response.body.tx_hash
             = <<"0", "x">> \o verify_call.response.body.filehash

\* tx is "0x" followed by the first 64 characters of digest
IsCutTxHash(tx, digest) ==
    /\ Len(tx) = 2 + (IF Len(digest) < 64 THEN Len(digest) ELSE 64)
    /\ tx[1] = "0"
    /\ tx[2] = "x"
    /\ \A k \in 3..Len(tx) : tx[k] = digest[k - 2]

\* C5 as amended: tx_hash is "0x" followed by the first 64 characters of the
\* digest; it carries the whole digest when the digest has at most 64
\* characters, as the 64-character digest of analyze always does.
C5_TxHashIsDigestPrefix ==
    /\ \A r \in DOMAIN reqs :
         Answered(reqs[r]) =>
           /\ Len(reqs[r].filehash) = 64
           /\ IsCutTxHash(reqs[r].response.body.verification.tx_hash,
                          reqs[r].filehash)
           /\ SubSeq(reqs[r].response.body.verification.tx_hash, 3, 66)
                = Sha256Hex(reqs[r].content)
    /\ (verify_call.pc = "done" /\ verify_call.response.status = 200) =>
           LET b == verify_call.response.body IN
           /\ b.filehash = Lower(verify_call.payload)
           /\ IsCutTxHash(b.tx_hash, b.filehash)
           /\ Len(b.filehash) <= 64 =>
                SubSeq(b.tx_hash, 3, Len(b.tx_hash)) = b.filehash

\* verify accepted a digest of 65 characters
C5_Witness ==
    /\ verify_call.pc = "done"
    /\ verify_call.response.status = 200
    /\ Len(verify_call.response.body.filehash) = 65
    /\ Len(verify_call.response.body.tx_hash) = 66

\* 60 entries, entry i with frame_index i, every confidence in [0, 1]
WellFormedScores(fs) ==
    /\ Len(fs) = 60
    /\ \A k \in 1..Len(fs) :
         /\ fs[k].frame_index = k - 1
         /\ fs[k].confidence >= 0
         /\ fs[k].confidence <= ConfScale

\* the first 8 characters of the digest are zeros: seed 0
SeedIsZero(digest) == \A k \in 1..8 : digest[k] = "0"

\* C6: for every digest the scoring loop yields exactly 60 entries, the
\* entry at position i has frame_index i, every confidence lies in [0, 1],
\* and with seed 0 every confidence is exactly 0.5.
C6_FrameScoresWellFormed ==
    /\ score.done =>
         /\ WellFormedScores(score.frame_scores)
         /\ SeedIsZero(score.filehash) =>
              \A k \in 1..60 : 2 * score.frame_scores[k].confidence = ConfScale
    /\ \A r \in DOMAIN reqs :
         Answered(reqs[r]) => WellFormedScores(reqs[r].response.body.frame_scores)

\* the loop ran on a digest that starts with 00000000
C6_Witness ==
    /\ score.done
    /\ SeedIsZero(score.filehash)
    /\ Len(score.frame_scores) = 60

\* C7: two answered requests with the same bytes carry the same
\* frame_scores, deepfake_likelihood, accuracy, tx_hash and verified,
\* whatever their names, the outcomes of their writes and their order.
C7_SameBytesSameScores ==
    \A r1, r2 \in DOMAIN reqs :
        (/\ Answered(reqs[r1]) /\ Answered(reqs[r2])
         /\ reqs[r1].content = reqs[r2].content) =>
            LET b1 == reqs[r1].response.body
                b2 == reqs[r2].response.body
            IN  /\ b1.frame_scores = b2.frame_scores
                /\ b1.deepfake_likelihood = b2.deepfake_likelihood
                /\ b1.accuracy = b2.accuracy
                /\ b1.verification.tx_hash = b2.verification.tx_hash
                /\ b1.verification.verified = b2.verification.verified

\* the same bytes under two names, at two times, one write failed, the
\* digest an even numeral
C7_Witness ==
    \E r1, r2 \in DOMAIN reqs :
        /\ Answered(reqs[r1]) /\ Answered(reqs[r2])
        /\ reqs[r1].content = reqs[r2].content
        /\ reqs[r1].filename # reqs[r2].filename
        /\ reqs[r1].analyzed_at # reqs[r2].analyzed_at
        /\ reqs[r1].response.body.job_id = "temporary"
        /\ reqs[r2].response.body.job_id # "temporary"
        /\ reqs[r2].response.body.verification.verified

\* C8 as claimed: the stored record carries every field of the result the
\* caller receives, the verification record included, with equal values.
C8_StoredRecordIsComposedResult ==
    \A r \in DOMAIN reqs :
        (Answered(reqs[r]) /\ Visited(reqs[r], "Persisted")) =>
            LET b == reqs[r].response.body
                d == StoredAs(b.job_id)
            IN  /\ d.filename = b.filename
                /\ d.accuracy = b.accuracy
                /\ d.deepfake_likelihood = b.deepfake_likelihood
                /\ d.frame_scores = b.frame_scores
                /\ d.analyzed_at = b.analyzed_at
                /\ "verification" \in DOMAIN d
                /\ d.verification = b.verification

\* C8 as amended: the stored record is job_doc plus the identifier: it has
\* filename, filesize, filehash, status, accuracy, deepfake_likelihood,
\* model, frame_scores and analyzed_at and no verification record; the
\* fields it shares with the response are equal, its filehash is the digest
\* of the bytes and the response's tx_hash without "0x".
C8_StoredRecordIsJobDoc ==
    \A r \in DOMAIN reqs :
        (Answered(reqs[r]) /\ Visited(reqs[r], "Persisted")) =>
            LET b == reqs[r].response.body
                d == StoredAs(b.job_id)
            IN  /\ IsStored(b.job_id)
                /\ DOMAIN d = {"_id", "filename", "filesize", "filehash",
                               "status", "accuracy", "deepfake_likelihood",
                               "model", "frame_scores", "analyzed_at"}
                /\ d.filename = b.filename
                /\ d.accuracy = b.accuracy
                /\ d.deepfake_likelihood = b.deepfake_likelihood
                /\ d.frame_scores = b.frame_scores
                /\ d.analyzed_at = b.analyzed_at
                /\ d.filesize = Len(reqs[r].content)
                /\ d.filehash = Sha256Hex(reqs[r].content)
                /\ <<"0", "x">> \o d.filehash = b.verification.tx_hash
                /\ d.status = "completed"
                /\ d.model = "CNN+LSTM v1"

\* "BB.AvI" was stored and answered
C8_Witness ==
    \E r \in DOMAIN reqs :
        /\ Answered(reqs[r])
        /\ Visited(reqs[r], "Persisted")
        /\ reqs[r].filename = <<"B","B",".","A","v","I">>
        /\ IsStored(reqs[r].response.body.job_id)

\* the steps of a request
RequestEdges ==
    { <<"Idle", "Received">>, <<"Idle", "Rejected">>,
      <<"Received", "Hashed">>, <<"Hashed", "Scored">>,
      <<"Scored", "Persisted">>, <<"Scored", "PersistFailed">>,
      <<"Persisted", "Responded">>, <<"PersistFailed", "Responded">> }

\* the states a request has entered are a walk along those steps, and it
\* has called create_document once if it is past Scored and never before
C9_State ==
    \A r \in DOMAIN reqs :
        LET q == reqs[r] IN
        /\ q.pc = (IF q.hist = <<>> THEN "Idle" ELSE q.hist[Len(q.hist)])
        /\ \A k \in 1..Len(q.hist) :
             <<(IF k = 1 THEN "Idle" ELSE q.hist[k - 1]), q.hist[k]>>
                 \in RequestEdges
        /\ q.attempts
             = (IF q.pc \in {"Persisted", "PersistFailed", "Responded"}
                THEN 1 ELSE 0)

\* every step moves requests along the edges, calls create_document only on
\* the step out of Scored, and changes the collection only by appending one
\* record on a step into Persisted
C9_Step ==
    /\ \A r \in DOMAIN reqs :
         /\ reqs'[r].pc # reqs[r].pc =>
              <<reqs[r].pc, reqs'[r].pc>> \in RequestEdges
         /\ reqs'[r].attempts
              = reqs[r].attempts
                  + (IF /\ reqs[r].pc = "Scored"
                        /\ reqs'[r].pc \in {"Persisted", "PersistFailed"}
                     THEN 1 ELSE 0)
    /\ Len(store') \in {Len(store), Len(store) + 1}
    /\ SubSeq(store', 1, Len(store)) = store
    /\ store' # store <=>
         \E r \in DOMAIN reqs :
             reqs[r].pc = "Scored" /\ reqs'[r].pc = "Persisted"

\* C9: an accepted request goes Received, Hashed, Scored, then Persisted or
\* PersistFailed, then Responded, without skipping or revisiting a state;
\* it attempts one write, after scoring and before the response, with no
\* retry; each successful write appends one record and nothing else changes
\* the collection.
C9_RequestStateMachine == [](C9_State) /\ [][C9_Step]_vars

\* two analyses of the same bytes were both stored, as two records
C9_Witness ==
    \E r1, r2 \in DOMAIN reqs :
        /\ r1 # r2
        /\ Answered(reqs[r1]) /\ Answered(reqs[r2])
        /\ reqs[r1].content = reqs[r2].content
        /\ reqs[r1].hist = <<"Received", "Hashed", "Scored", "Persisted", "Responded">>
        /\ reqs[r2].hist = reqs[r1].hist
        /\ Len(store) = 2
        /\ store[1].filehash = store[2].filehash
        /\ store[1]["_id"] # store[2]["_id"]

\* every stats response: status 200, benchmark 0.95, analyses the length of
\* recent, at most 10 entries, none with "_id", and empty after a failed read
C10_State ==
    stats_out.status # 0 =>
        /\ stats_out.status = 200
        /\ stats_out.body.accuracy_benchmark = 95
        /\ stats_out.body.analyses = Len(stats_out.body.recent)
        /\ Len(stats_out.body.recent) <= 10
        /\ \A k \in 1..Len(stats_out.body.recent) :
             "_id" \notin DOMAIN stats_out.body.recent[k]
        /\ stats_out.read_failed =>
             stats_out.body.recent = <<>> /\ stats_out.body.analyses = 0

\* C10: stats answers in every store state, with benchmark 0.95; after a
\* failed read recent is empty and analyses 0; analyses is the length of
\* recent, which has at most 10 entries, none with "_id"; the store is not
\* written.
C10_StatsTolerant ==
    /\ [](C10_State)
    /\ [](ENABLED StatsRead(OneTime) /\ ENABLED StatsReadFails(OneTime))
    /\ [][stats_out' # stats_out => store' = store]_vars

\* a read of a collection of more than 10 records returned 10 of them
C10_Witness ==
    /\ Len(store) > 10
    /\ stats_out.status = 200
    /\ ~stats_out.read_failed
    /\ stats_out.body.analyses = 10
    /\ "_id" \in DOMAIN store[Len(store)]
    /\ stats_out.body.recent[10].filehash = store[Len(store)].filehash

====
